---- MODULE Spec2Model ----
(***************************************************************************)
(* DailyBudgetMart API (src/main.py): the order workflow (create_order and *)
(* its background task fire_webhooks) and coupon creation (create_coupon), *)
(* over the document store's collections tenant, product, coupon, order    *)
(* and webhook.                                                            *)
(*                                                                         *)
(* Every handler is cut at its store operations (find_one, update_one,     *)
(* create_document, requests.post): one action per operation, so that      *)
(* requests can be interleaved the way the server interleaves them.        *)
(*                                                                         *)
(* Money.  Prices, amount_off and the rounded response values are whole    *)
(* cents.  The unrounded discount and total are kept in units of 1/Percent *)
(* of a cent, which holds subtotal * percent_off / 100 exactly for whole   *)
(* percents.  round(x, 2) is Round2: the nearest cent, and at an exact     *)
(* half cent either neighbour, because no binary float holds n.005 exactly *)
(* and the side it falls on depends on the representation error (the code  *)
(* gives round(1.005, 2) = 1.01 for 10.05 * 0.1 and round(6.005, 2) = 6.0  *)
(* for 60.05 * 0.1).                                                       *)
(*                                                                         *)
(* Inputs.  A request's tenant_id is read when the handler starts, each    *)
(* element of payload.items when the loop reaches it, and coupon_code      *)
(* after the loop, so the actions draw each part where the code reads it.  *)
(* An item's quantity is the raw JSON value, [kind, v]: an integer v, the   *)
(* numeral "v", the float v/10, a missing key, text int() rejects, or null. *)
(***************************************************************************)
EXTENDS Integers, Sequences, FiniteSets

VARIABLES
  tenant,    \* db["tenant"]: the set of tenant ids
  product,   \* db["product"]: product id -> [tenant_id, price, stock]
  coupon,    \* db["coupon"]: sequence of coupon documents, _id = position
  order,     \* db["order"]: sequence of order documents, _id = position
  webhook,   \* db["webhook"]: sequence of webhook documents, _id = position
  posts,     \* requests.post calls made so far, per create_order request
  rq,        \* create_order requests: program counter and locals
  cq,        \* create_coupon requests: program counter and locals
  aq,        \* requests to the other writing endpoints: counter, locals, response
  pre        \* history: the product and coupon collections at Init

vars == <<tenant, product, coupon, order, webhook, posts, rq, cq, aq, pre>>

\* ------------------------------------------------------------------ bounds

MaxStock == 2
MaxQty == 2
MaxItems == 2

\* --------------------------------------------------------------- constants

\* percent_off is divided by 100.0
Percent == 100

None == "None"

\* requests in flight
OrderReqs == {"r1", "r2"}

AdminReqs == {"a1", "a2"}

\* the ids the store gives to new tenants and products, in this order
NewTenantIds == <<"T0", "T9">>

NewProductIds == <<"P9", "P10">>
CouponReqs == {"c1", "c2"}

\* ids that ObjectId() accepts; "zz" and "" are ones it rejects
WellFormed == {"T0", "T1", "T2", "T9", "P1", "P2", "P3", "P9", "P10"}

\* ------------------------------------------------------------ store helpers

\* ObjectId(id_str) or HTTP 400
oid(id_str) == id_str \in WellFormed

\* `not s` / `if s` on an Optional[str]: None and "" are falsy
Falsy(s) == s \in {None, ""}

\* int(item.get("quantity", 1)): [ok, v], ok FALSE when int() raises
int_quantity(q) ==
  CASE q.kind = "missing" -> [ok |-> TRUE, v |-> 1]
    [] q.kind \in {"int", "str"} -> [ok |-> TRUE, v |-> q.v]
    [] q.kind = "float" ->
         [ok |-> TRUE, v |-> IF q.v >= 0 THEN q.v \div 10 ELSE -((-q.v) \div 10)]
    [] OTHER -> [ok |-> FALSE, v |-> 0]

\* Optional[float]: {} is None, {v} is the value v
Truthy(opt) == \E v \in opt : v # 0

ValueOf(opt) == CHOOSE v \in opt : TRUE

Min(S) == CHOOSE x \in S : \A y \in S : x <= y

Max2(a, b) == IF a >= b THEN a ELSE b

\* database.create_document: insert the document, return its id
create_document(collection, doc) == Append(collection, doc)

\* db["tenant"].count_documents({"_id": oid(tid)}, limit=1)
count_tenant(tid) == IF tid \in tenant THEN 1 ELSE 0

\* db["product"].find_one({"_id": oid(pid), "tenant_id": tid}): the id or None
find_product(pid, tid) ==
  IF pid \in DOMAIN product /\ product[pid].tenant_id = tid THEN pid ELSE None

\* db["coupon"].find_one({"tenant_id", "code", "active": True}): first match, 0 for None
find_active_coupon(tid, code) ==
  LET hits == {k \in DOMAIN coupon : /\ coupon[k].tenant_id = tid
                                     /\ coupon[k].code = code
                                     /\ coupon[k].active}
  IN IF hits = {} THEN 0 ELSE Min(hits)

\* db["coupon"].find_one({"tenant_id", "code"}): first match, 0 for None
find_coupon(tid, code) ==
  LET hits == {k \in DOMAIN coupon : /\ coupon[k].tenant_id = tid
                                     /\ coupon[k].code = code}
  IN IF hits = {} THEN 0 ELSE Min(hits)

\* list(db["webhook"].find({"tenant_id": tid, "active": True})), in _id order
RECURSIVE find_hooks(_, _)
find_hooks(tid, k) ==
  IF k > Len(webhook) THEN <<>>
  ELSE IF webhook[k].tenant_id = tid /\ webhook[k].active
       THEN <<k>> \o find_hooks(tid, k + 1)
       ELSE find_hooks(tid, k + 1)

\* ------------------------------------------------------------ pure functions

\* Discount with amount_off applied only when percent_off is not (elif for if)
DiscountEither(subtotal, c) ==
  IF Truthy(c.percent_off) THEN subtotal * ValueOf(c.percent_off)
  ELSE IF Truthy(c.amount_off) THEN ValueOf(c.amount_off) * Percent ELSE 0

\* discount += subtotal * (percent_off / 100.0); discount += amount_off
\* subtotal in cents, result in 1/Percent cents
Discount(subtotal, c) ==
  (IF Truthy(c.percent_off) THEN subtotal * ValueOf(c.percent_off) ELSE 0)
  + (IF Truthy(c.amount_off) THEN ValueOf(c.amount_off) * Percent ELSE 0)

\* Total without the max(0.0, ...)
TotalUnclamped(subtotal, discount) == subtotal * Percent - discount

\* total = max(0.0, subtotal - discount), in 1/Percent cents
Total(subtotal, discount) == Max2(0, subtotal * Percent - discount)

\* round(x, 2) of x >= 0 in 1/Percent cents: the possible results in cents
Round2(x) ==
  LET lo == x \div Percent
      rem == x % Percent
  IN IF 2 * rem < Percent THEN {lo}
     ELSE IF 2 * rem > Percent THEN {lo + 1}
     ELSE {lo, lo + 1}

\* ------------------------------------------------------------------- state

NoResp == [status |-> 0, detail |-> "", id |-> 0, total |-> 0, subtotal |-> 0, discount |-> 0]

Error(code, msg) == [NoResp EXCEPT !.status = code, !.detail = msg]

IdleReq ==
  [pc |-> "idle", tenant_id |-> None, subtotal |-> 0, normalized_items |-> <<>>,
   discount |-> 0, applied_coupon |-> None, c |-> 0, total |-> 0, oid_str |-> 0,
   j |-> 0, hooks |-> <<>>, h |-> 0, resp |-> NoResp]

Coupon(tid, code, pct, amt, active, n) ==
  [tenant_id |-> tid, code |-> code, percent_off |-> pct, amount_off |-> amt,
   active |-> active, max_redemptions |-> {}, times_redeemed |-> n]

IdleCoupon == [pc |-> "idle", coupon |-> Coupon(None, None, {}, {}, TRUE, 0), resp |-> NoResp]

Product(tid, title, price, stock) ==
  [tenant_id |-> tid, title |-> title, price |-> price, stock |-> stock]

Webhook(tid, url, active) == [tenant_id |-> tid, url |-> url, active |-> active]

NoAdminResp == [status |-> 0, detail |-> "", id |-> None, stock |-> 0]

IdleAdmin ==
  [pc |-> "idle", product_id |-> None, product |-> Product(None, "", 0, 0),
   webhook |-> Webhook(None, "", FALSE), resp |-> NoAdminResp]

Products(s1, s2) ==
  [p \in {"P1", "P2", "P3"} |->
     CASE p = "P1" -> Product("T1", "Widget A", 5000, s1)
       [] p = "P2" -> Product("T1", "Widget B", 1005, s2)
       [] p = "P3" -> Product("T2", "Widget C", 5000, 1)]

Coupons ==
  << Coupon("T1", "SAVE", {10}, {}, TRUE, 0),
     Coupon("T1", "AMT15", {}, {1500}, TRUE, 3),
     Coupon("T1", "BOTH", {10}, {500}, TRUE, 0),
     Coupon("T1", "OLD", {50}, {}, FALSE, 0),
     Coupon("T2", "SAVE", {50}, {}, TRUE, 0) >>

Webhooks ==
  << Webhook("T1", "u1", TRUE), Webhook("T1", "u2", FALSE),
     Webhook("T1", "u3", TRUE), Webhook("T2", "u4", TRUE) >>

Init ==
  /\ tenant = {"T1", "T2"}
  /\ \E s1 \in 0..MaxStock, s2 \in 0..MaxStock : product = Products(s1, s2)
  /\ coupon = Coupons
  /\ order = <<>>
  /\ webhook = Webhooks
  /\ posts = [r \in OrderReqs |-> <<>>]
  /\ rq = [r \in OrderReqs |-> IdleReq]
  /\ cq = [r \in CouponReqs |-> IdleCoupon]
  /\ aq = [a \in AdminReqs |-> IdleAdmin]
  /\ pre = [product |-> product, coupon |-> coupon]

store == <<tenant, product, coupon, order, webhook>>

\* ------------------------------------------------------------ create_order

Fail(r, code, msg) ==
  rq' = [rq EXCEPT ![r].pc = "failed", ![r].resp = Error(code, msg)]

\* lines 279-286: the tenant check and the locals of the item loop
CO_Begin(r, tid) ==
  /\ rq[r].pc = "idle"
  /\ IF ~oid(tid) THEN Fail(r, 400, "Invalid id format")
     ELSE IF count_tenant(tid) = 0 THEN Fail(r, 404, "Tenant not found")
     ELSE rq' = [rq EXCEPT ![r].pc = "items", ![r].tenant_id = tid]
  /\ UNCHANGED <<store, posts, cq, aq, pre>>

\* CO_Item that takes the stock as soon as the item is accepted
CO_ItemTakesStock(r, item) ==
  /\ rq[r].pc = "items"
  /\ Len(rq[r].normalized_items) < MaxItems
  /\ LET pid == item.product_id
         qty == int_quantity(item.quantity)
         found == find_product(pid, rq[r].tenant_id)
     IN IF ~qty.ok THEN Fail(r, 500, "Internal Server Error") /\ UNCHANGED product
        ELSE IF Falsy(pid) \/ qty.v <= 0
             THEN Fail(r, 400, "Invalid item") /\ UNCHANGED product
        ELSE IF ~oid(pid) THEN Fail(r, 400, "Invalid id format") /\ UNCHANGED product
        ELSE IF found = None THEN Fail(r, 404, "Product not found") /\ UNCHANGED product
        ELSE IF product[found].stock < qty.v
             THEN Fail(r, 400, "Insufficient stock for " \o product[found].title)
                  /\ UNCHANGED product
        ELSE /\ rq' = [rq EXCEPT
                  ![r].subtotal = @ + product[found].price * qty.v,
                  ![r].normalized_items = Append(@,
                     [product_id |-> pid, quantity |-> qty.v,
                      price |-> product[found].price, title |-> product[found].title])]
             /\ product' = [product EXCEPT ![found].stock = @ - qty.v]
  /\ UNCHANGED <<tenant, coupon, order, webhook, posts, cq, aq, pre>>

\* lines 287-304: one iteration of the loop over payload.items; an exception of
\* int() is not handled and the server answers 500
CO_Item(r, item) ==
  /\ rq[r].pc = "items"
  /\ Len(rq[r].normalized_items) < MaxItems
  /\ LET pid == item.product_id
         qty == int_quantity(item.quantity)
         found == find_product(pid, rq[r].tenant_id)
     IN IF ~qty.ok THEN Fail(r, 500, "Internal Server Error")
        ELSE IF Falsy(pid) \/ qty.v <= 0 THEN Fail(r, 400, "Invalid item")
        ELSE IF ~oid(pid) THEN Fail(r, 400, "Invalid id format")
        ELSE IF found = None THEN Fail(r, 404, "Product not found")
        ELSE IF product[found].stock < qty.v
             THEN Fail(r, 400, "Insufficient stock for " \o product[found].title)
        ELSE rq' = [rq EXCEPT
               ![r].subtotal = @ + product[found].price * qty.v,
               ![r].normalized_items = Append(@,
                  [product_id |-> pid, quantity |-> qty.v,
                   price |-> product[found].price, title |-> product[found].title])]
  /\ UNCHANGED <<store, posts, cq, aq, pre>>

\* lines 306-315, 318-319: the loop is over; look the coupon up and price it
CO_Coupon(r, coupon_code) ==
  /\ rq[r].pc = "items"
  /\ LET c == find_active_coupon(rq[r].tenant_id, coupon_code)
     IN IF Falsy(coupon_code) THEN rq' = [rq EXCEPT ![r].pc = "persist"]
        ELSE IF c = 0 THEN Fail(r, 400, "Invalid coupon code")
        ELSE rq' = [rq EXCEPT ![r].pc = "redeem", ![r].c = c,
                              ![r].applied_coupon = coupon[c].code,
                              ![r].discount = Discount(rq[r].subtotal, coupon[c])]
  /\ UNCHANGED <<store, posts, cq, aq, pre>>

\* line 317: db["coupon"].update_one({"_id": c["_id"]}, {"$inc": {"times_redeemed": 1}})
CO_Redeem(r) ==
  /\ rq[r].pc = "redeem"
  /\ coupon' = [coupon EXCEPT ![rq[r].c].times_redeemed = @ + 1]
  /\ rq' = [rq EXCEPT ![r].pc = "persist"]
  /\ UNCHANGED <<tenant, product, order, webhook, posts, cq, aq, pre>>

\* lines 321-330: the total, the Order document, create_document("order", ...)
CO_Persist(r) ==
  /\ rq[r].pc = "persist"
  /\ \E total \in Round2(Total(rq[r].subtotal, rq[r].discount)) :
       /\ order' = create_document(order,
            [tenant_id |-> rq[r].tenant_id, items |-> rq[r].normalized_items,
             total |-> total, status |-> "pending"])
       /\ rq' = [rq EXCEPT ![r].pc = "decrement", ![r].total = total,
                           ![r].oid_str = Len(order) + 1, ![r].j = 1]
  /\ UNCHANGED <<tenant, product, coupon, webhook, posts, cq, aq, pre>>

\* CO_Decrement that never takes the stock below zero
CO_DecrementClamped(r) ==
  /\ rq[r].pc = "decrement"
  /\ rq[r].j <= Len(rq[r].normalized_items)
  /\ LET it == rq[r].normalized_items[rq[r].j]
     IN product' = [product EXCEPT ![it.product_id].stock = Max2(0, @ - it.quantity)]
  /\ rq' = [rq EXCEPT ![r].j = @ + 1]
  /\ UNCHANGED <<tenant, coupon, order, webhook, posts, cq, aq, pre>>

\* CO_Decrement whose update matches only while the stock covers the quantity
CO_DecrementGuarded(r) ==
  /\ rq[r].pc = "decrement"
  /\ rq[r].j <= Len(rq[r].normalized_items)
  /\ LET it == rq[r].normalized_items[rq[r].j]
     IN product' = IF product[it.product_id].stock >= it.quantity
                   THEN [product EXCEPT ![it.product_id].stock = @ - it.quantity]
                   ELSE product
  /\ rq' = [rq EXCEPT ![r].j = @ + 1]
  /\ UNCHANGED <<tenant, coupon, order, webhook, posts, cq, aq, pre>>

\* CO_Decrement that walks normalized_items from the last item to the first
CO_DecrementReversed(r) ==
  /\ rq[r].pc = "decrement"
  /\ rq[r].j <= Len(rq[r].normalized_items)
  /\ LET it == rq[r].normalized_items[Len(rq[r].normalized_items) + 1 - rq[r].j]
     IN product' = [product EXCEPT ![it.product_id].stock = @ - it.quantity]
  /\ rq' = [rq EXCEPT ![r].j = @ + 1]
  /\ UNCHANGED <<tenant, coupon, order, webhook, posts, cq, aq, pre>>

\* lines 333-334: one iteration of the stock loop
\* db["product"].update_one({"_id": oid(it["product_id"])}, {"$inc": {"stock": -quantity}})
CO_Decrement(r) ==
  /\ rq[r].pc = "decrement"
  /\ rq[r].j <= Len(rq[r].normalized_items)
  /\ LET it == rq[r].normalized_items[rq[r].j]
     IN product' = [product EXCEPT ![it.product_id].stock = @ - it.quantity]
  /\ rq' = [rq EXCEPT ![r].j = @ + 1]
  /\ UNCHANGED <<tenant, coupon, order, webhook, posts, cq, aq, pre>>

\* lines 337-339: background_tasks.add_task(fire_webhooks, ...) and the response
CO_Respond(r) ==
  /\ rq[r].pc = "decrement"
  /\ rq[r].j > Len(rq[r].normalized_items)
  /\ \E sub \in Round2(rq[r].subtotal * Percent), disc \in Round2(rq[r].discount) :
       rq' = [rq EXCEPT ![r].pc = "fw_find",
                        ![r].resp = [NoResp EXCEPT !.status = 200, !.id = rq[r].oid_str,
                                                   !.total = rq[r].total,
                                                   !.subtotal = sub, !.discount = disc]]
  /\ UNCHANGED <<store, posts, cq, aq, pre>>

\* ------------------------------------------------------------ fire_webhooks

\* line 268: hooks = list(db["webhook"].find({"tenant_id": tenant_id, "active": True}))
FW_Find(r) ==
  /\ rq[r].pc = "fw_find"
  /\ rq' = [rq EXCEPT ![r].pc = "fw_post", ![r].hooks = find_hooks(rq[r].tenant_id, 1),
                      ![r].h = 1]
  /\ UNCHANGED <<store, posts, cq, aq, pre>>

\* FW_Post without the inner try: a post that raises ends the loop
FW_PostAborts(r, ok) ==
  /\ rq[r].pc = "fw_post"
  /\ rq[r].h <= Len(rq[r].hooks)
  /\ posts' = [posts EXCEPT ![r] = Append(@,
       [hook |-> rq[r].hooks[rq[r].h], event |-> "order.created",
        order_id |-> rq[r].oid_str, total |-> rq[r].total, ok |-> ok])]
  /\ rq' = [rq EXCEPT ![r].h = IF ok THEN @ + 1 ELSE Len(rq[r].hooks) + 1]
  /\ UNCHANGED <<store, cq, aq, pre>>

\* lines 269-273: one iteration; requests.post returns (ok) or raises (~ok), and
\* the exception is passed over
FW_Post(r, ok) ==
  /\ rq[r].pc = "fw_post"
  /\ rq[r].h <= Len(rq[r].hooks)
  /\ posts' = [posts EXCEPT ![r] = Append(@,
       [hook |-> rq[r].hooks[rq[r].h], event |-> "order.created",
        order_id |-> rq[r].oid_str, total |-> rq[r].total, ok |-> ok])]
  /\ rq' = [rq EXCEPT ![r].h = @ + 1]
  /\ UNCHANGED <<store, cq, aq, pre>>

\* ----------------------------------------------------------- create_coupon

\* lines 214-217: the tenant check; c is the Coupon of the request body
CC_Begin(k, c) ==
  /\ cq[k].pc = "idle"
  /\ IF ~oid(c.tenant_id)
     THEN cq' = [cq EXCEPT ![k].pc = "failed", ![k].resp = Error(400, "Invalid id format")]
     ELSE IF count_tenant(c.tenant_id) = 0
          THEN cq' = [cq EXCEPT ![k].pc = "failed",
                                ![k].resp = Error(404, "Tenant not found")]
     ELSE cq' = [cq EXCEPT ![k].pc = "find", ![k].coupon = c]
  /\ UNCHANGED <<store, posts, rq, aq, pre>>

\* lines 218-220: exists = db["coupon"].find_one({"tenant_id", "code"})
CC_Find(k) ==
  /\ cq[k].pc = "find"
  /\ IF find_coupon(cq[k].coupon.tenant_id, cq[k].coupon.code) # 0
     THEN cq' = [cq EXCEPT ![k].pc = "failed",
                           ![k].resp = Error(400, "Coupon already exists")]
     ELSE cq' = [cq EXCEPT ![k].pc = "insert"]
  /\ UNCHANGED <<store, posts, rq, aq, pre>>

\* lines 221-222: create_document("coupon", coupon), the body as given, and the response
CC_Insert(k) ==
  /\ cq[k].pc = "insert"
  /\ coupon' = create_document(coupon, cq[k].coupon)
  /\ cq' = [cq EXCEPT ![k].pc = "done",
                      ![k].resp = [NoResp EXCEPT !.status = 200, !.id = Len(coupon) + 1]]
  /\ UNCHANGED <<tenant, product, order, webhook, posts, rq, aq, pre>>

\* ------------------------------------------- the other writing endpoints
\* Requests run side by side, each cut at its store operations.

\* the _id of a new document: the first id of ids not in used, None when all are
NextId(ids, used) ==
  LET free == {i \in DOMAIN ids : ids[i] \notin used}
  IN IF free = {} THEN None
     ELSE ids[CHOOSE i \in free : \A k \in free : i <= k]

AdminFail(a, code, msg) ==
  aq' = [aq EXCEPT ![a].pc = "failed",
                   ![a].resp = [NoAdminResp EXCEPT !.status = code, !.detail = msg]]

AdminDone(a, id) ==
  aq' = [aq EXCEPT ![a].pc = "done",
                   ![a].resp = [NoAdminResp EXCEPT !.status = 200, !.id = id]]

\* lines 81-84: create_tenant inserts and answers the new id
create_tenant(a) ==
  /\ aq[a].pc = "idle"
  /\ NextId(NewTenantIds, tenant) # None
  /\ tenant' = tenant \cup {NextId(NewTenantIds, tenant)}
  /\ AdminDone(a, NextId(NewTenantIds, tenant))
  /\ UNCHANGED <<product, coupon, order, webhook, posts, rq, cq, pre>>

\* lines 150-153: add_product checks the tenant; p is the Product of the request body
AP_Begin(a, p) ==
  /\ aq[a].pc = "idle"
  /\ IF ~oid(p.tenant_id) THEN AdminFail(a, 400, "Invalid id format")
     ELSE IF count_tenant(p.tenant_id) = 0 THEN AdminFail(a, 404, "Tenant not found")
     ELSE aq' = [aq EXCEPT ![a].pc = "ap_insert", ![a].product = p]
  /\ UNCHANGED <<store, posts, rq, cq, pre>>

\* lines 154-155: create_document("product", product), the body as given
AP_Insert(a) ==
  /\ aq[a].pc = "ap_insert"
  /\ LET pid == NextId(NewProductIds, DOMAIN product)
     IN /\ pid # None
        /\ product' = [q \in DOMAIN product \cup {pid} |->
                         IF q = pid THEN aq[a].product ELSE product[q]]
        /\ AdminDone(a, pid)
  /\ UNCHANGED <<tenant, coupon, order, webhook, posts, rq, cq, pre>>

\* line 184: update_one({"_id", "tenant_id"}, {"$inc": {"stock": delta}}), no lower
\* bound; 404 when nothing matched (lines 185-186)
US_Update(a, pid, delta, tid) ==
  /\ aq[a].pc = "idle"
  /\ IF ~oid(pid) THEN AdminFail(a, 400, "Invalid id format") /\ UNCHANGED product
     ELSE IF find_product(pid, tid) = None
          THEN AdminFail(a, 404, "Product not found") /\ UNCHANGED product
     ELSE /\ product' = [product EXCEPT ![pid].stock = @ + delta]
          /\ aq' = [aq EXCEPT ![a].pc = "us_read", ![a].product_id = pid]
  /\ UNCHANGED <<tenant, coupon, order, webhook, posts, rq, cq, pre>>

\* lines 187-188: the product is read again, by _id, for the response
US_Read(a) ==
  /\ aq[a].pc = "us_read"
  /\ aq' = [aq EXCEPT ![a].pc = "done",
                      ![a].resp = [NoAdminResp EXCEPT
                                     !.status = 200, !.id = aq[a].product_id,
                                     !.stock = product[aq[a].product_id].stock]]
  /\ UNCHANGED <<store, posts, rq, cq, pre>>

\* lines 238-241: create_webhook checks the tenant; w is the Webhook of the body
CW_Begin(a, w) ==
  /\ aq[a].pc = "idle"
  /\ IF ~oid(w.tenant_id) THEN AdminFail(a, 400, "Invalid id format")
     ELSE IF count_tenant(w.tenant_id) = 0 THEN AdminFail(a, 404, "Tenant not found")
     ELSE aq' = [aq EXCEPT ![a].pc = "cw_insert", ![a].webhook = w]
  /\ UNCHANGED <<store, posts, rq, cq, pre>>

\* lines 242-243: create_document("webhook", webhook) and the new document's id
CW_Insert(a) ==
  /\ aq[a].pc = "cw_insert"
  /\ webhook' = create_document(webhook, aq[a].webhook)
  /\ AdminDone(a, Len(webhook) + 1)
  /\ UNCHANGED <<tenant, product, coupon, order, posts, rq, cq, pre>>

\* ------------------------------------------------------------------ inputs

TenantInputs == {"zz", "T0", "T1", "T2"}

IntQ(v) == [kind |-> "int", v |-> v]

\* quantities that are not JSON integers: "2", 1.9, -0.5, no key, "abc", null
OddQuantities ==
  { [kind |-> "str", v |-> 2], [kind |-> "float", v |-> 19], [kind |-> "float", v |-> -5],
    [kind |-> "missing", v |-> 0], [kind |-> "text", v |-> 0], [kind |-> "null", v |-> 0] }

ItemInputs ==
  [product_id : {"P1", "P2", "P3"}, quantity : {IntQ(v) : v \in 1..MaxQty}]
    \cup [product_id : {None, "", "zz", "P9"}, quantity : {IntQ(1)}]
    \cup [product_id : {"P1"}, quantity : {IntQ(0)} \cup OddQuantities]
    \cup [product_id : {None}, quantity : {[kind |-> "text", v |-> 0]}]

CodeInputs == {None, "", "SAVE", "AMT15", "BOTH", "OLD", "NOPE"}

\* the inputs of the interleaved requests: one tenant, one product
RaceItemInputs == [product_id : {"P1"}, quantity : {IntQ(v) : v \in 1..MaxQty}]

RaceCodeInputs == {None, "SAVE"}

\* request bodies of create_coupon
CouponInputs ==
  {Coupon(tid, code, {10}, {}, TRUE, 0) : tid \in TenantInputs, code \in {"SAVE", "NEW"}}
    \cup {Coupon(tid, "NEW", {20}, {300}, FALSE, 7) : tid \in {"T1", "T2"}}

\* request bodies of add_product, update_stock and create_webhook
ProductInputs == {Product("T1", "Widget D", 5000, MaxStock)}

DeltaInputs == {0 - MaxStock - 1, 1}

WebhookInputs == {Webhook("T1", "u5", active) : active \in BOOLEAN}

\* ------------------------------------------- one request, run to completion

SeqNext ==
  \/ \E tid \in TenantInputs : CO_Begin("r1", tid)
  \/ \E item \in ItemInputs : CO_Item("r1", item)
  \/ \E code \in CodeInputs : CO_Coupon("r1", code)
  \/ CO_Redeem("r1")
  \/ CO_Persist("r1")
  \/ CO_Decrement("r1")
  \/ CO_Respond("r1")
  \/ FW_Find("r1")
  \/ \E ok \in BOOLEAN : FW_Post("r1", ok)

SeqSpec == Init /\ [][SeqNext]_vars

\* a started handler runs on, and the background task runs after the response
FairSeqSpec == SeqSpec /\ WF_vars(SeqNext)

\* ------------------- create_order handlers, interleaved per store operation
\* (the server runs each sync handler on a worker thread of its own)

Step(r) ==
  \/ CO_Begin(r, "T1")
  \/ \E item \in RaceItemInputs : CO_Item(r, item)
  \/ \E code \in RaceCodeInputs : CO_Coupon(r, code)
  \/ CO_Redeem(r)
  \/ CO_Persist(r)
  \/ CO_Decrement(r)
  \/ CO_Respond(r)

Next == \E r \in OrderReqs : Step(r)

\* the racing requests order P1 only
RaceInit == Init /\ product["P2"].stock = 0

Spec == RaceInit /\ [][Next]_vars

\* ------------------------------------- create_coupon requests, interleaved

CouponNext ==
  \E k \in CouponReqs :
    \/ \E a \in AdminReqs : create_tenant(a)
    \/ \E c \in CouponInputs : CC_Begin(k, c)
    \/ CC_Find(k)
    \/ CC_Insert(k)

CouponSpec == Init /\ [][CouponNext]_vars

\* --------- one create_order and its task among the other writing endpoints

OrderStep(r) ==
  \/ CO_Begin(r, "T1")
  \/ \E item \in [product_id : {"P1", "P9"}, quantity : {IntQ(1)}] : CO_Item(r, item)
  \/ \E code \in RaceCodeInputs : CO_Coupon(r, code)
  \/ CO_Redeem(r)
  \/ CO_Persist(r)
  \/ CO_Decrement(r)
  \/ CO_Respond(r)
  \/ FW_Find(r)
  \/ \E ok \in BOOLEAN : FW_Post(r, ok)

AdminStep(a) ==
  \/ \E p \in ProductInputs : AP_Begin(a, p)
  \/ AP_Insert(a)
  \/ \E delta \in DeltaInputs, tid \in {"T1", "T2"} : US_Update(a, "P1", delta, tid)
  \/ US_Read(a)
  \/ \E w \in WebhookInputs : CW_Begin(a, w)
  \/ CW_Insert(a)

ApiNext ==
  \/ OrderStep("r1")
  \/ \E a \in AdminReqs : AdminStep(a)

ApiSpec == RaceInit /\ [][ApiNext]_vars

\* the handler and its task run on; the other endpoints need not be called
FairApiSpec == ApiSpec /\ WF_vars(OrderStep("r1"))

\* ------------------------------------------------------------------ claims

Responded(r) == rq[r].resp.status = 200

Abs(x) == IF x >= 0 THEN x ELSE -x

\* the quantities of the items of `items` that name product p
RECURSIVE SumQty(_, _)
SumQty(items, p) ==
  IF items = <<>> THEN 0
  ELSE (IF items[1].product_id = p THEN items[1].quantity ELSE 0) + SumQty(Tail(items), p)

\* sum(price * quantity) over `items`, in cents
RECURSIVE SumPrice(_)
SumPrice(items) ==
  IF items = <<>> THEN 0
  ELSE items[1].price * items[1].quantity + SumPrice(Tail(items))

\* the value of an Optional[float], None counting as 0
OrZero(opt) == IF opt = {} THEN 0 ELSE ValueOf(opt)

\* the decrements request r has applied so far to product p
Applied(r, p) ==
  IF rq[r].j = 0 THEN 0
  ELSE SumQty(SubSeq(rq[r].normalized_items, 1, rq[r].j - 1), p)

ActiveHooks(tid) ==
  {k \in DOMAIN webhook : webhook[k].tenant_id = tid /\ webhook[k].active}

HooksPosted(r) == {posts[r][i].hook : i \in DOMAIN posts[r]}

\* C1: with create_order requests run one after another (each to completion), no
\* product's stock is ever below zero, also when an order names a product twice.
StockNeverNegative == \A p \in DOMAIN product : product[p].stock >= 0

\* C2: a create_order that fails (tenant, item, product, stock or coupon error)
\* leaves the store as it was: no order, no stock change, no times_redeemed change.
FailedOrderLeavesStore ==
  \A r \in OrderReqs :
    rq[r].pc = "failed" =>
      /\ rq[r].resp.status \in {400, 404, 500}
      /\ product = pre.product
      /\ coupon = pre.coupon
      /\ order = <<>>

\* C2 witness: the second item of the list fails the stock check after the first passed
FailedAtSecondItem ==
  /\ rq["r1"].pc = "failed"
  /\ rq["r1"].resp.detail = "Insufficient stock for Widget B"
  /\ Len(rq["r1"].normalized_items) = 1

\* C3 as stated: the returned total is the returned subtotal minus the returned
\* discount, in whole cents, and is >= 0, for every coupon.
TotalIsSubtotalMinusDiscount ==
  \A r \in OrderReqs :
    Responded(r) =>
      /\ rq[r].resp.total = rq[r].resp.subtotal - rq[r].resp.discount
      /\ rq[r].resp.total >= 0

\* C3 amended: the returned total is >= 0 and is max(0, subtotal - discount) of the
\* unrounded values, rounded to cents: 0 when the discount reaches the subtotal,
\* within one cent of max(0, returned subtotal - returned discount) always, and equal
\* to it when the discount is a whole number of cents.
TotalIsClampedDifference ==
  \A r \in OrderReqs :
    Responded(r) =>
      LET resp == rq[r].resp
          diff == Max2(0, resp.subtotal - resp.discount)
      IN /\ resp.total >= 0
         /\ Abs(resp.total - diff) <= 1
         /\ rq[r].discount % Percent = 0 => resp.total = diff
         /\ rq[r].discount >= rq[r].subtotal * Percent => resp.total = 0

\* C3 witness: an order whose discount exceeds its subtotal
DiscountExceedsSubtotal ==
  /\ Responded("r1")
  /\ rq["r1"].resp.discount > rq["r1"].resp.subtotal
  /\ rq["r1"].resp.subtotal > 0
  /\ rq["r1"].resp.total = 0

\* C4: in every state each coupon's times_redeemed is its value at creation plus
\* the number of persisted orders created with that coupon.
RedeemedCountsOrders ==
  \A k \in DOMAIN coupon :
    coupon[k].times_redeemed =
      pre.coupon[k].times_redeemed
        + Cardinality({r \in OrderReqs : rq[r].c = k /\ rq[r].oid_str \in DOMAIN order})

\* C5: no two coupon documents share (tenant_id, code), for every interleaving of
\* create_coupon requests.
CouponCodeUniquePerTenant ==
  \A a, b \in DOMAIN coupon :
    (coupon[a].tenant_id = coupon[b].tenant_id /\ coupon[a].code = coupon[b].code) => a = b

\* C6: the returned discount is subtotal * percent_off / 100 plus amount_off of the
\* applied coupon (each when set, both when both), the total is max(0, subtotal -
\* discount), both rounded to cents; without a coupon the discount is 0 and the total
\* the subtotal; on subtotal 100.00 the three coupons give 10.00/90.00, 15.00/85.00
\* and 15.00/85.00.
DiscountFormula ==
  \A r \in OrderReqs :
    Responded(r) =>
      LET resp == rq[r].resp
          S == SumPrice(order[resp.id].items)
          c == rq[r].c
          exact == IF c = 0 THEN 0
                   ELSE S * OrZero(pre.coupon[c].percent_off)
                        + Percent * OrZero(pre.coupon[c].amount_off)
      IN /\ resp.subtotal = S
         /\ Abs(Percent * resp.discount - exact) * 2 <= Percent
         /\ Abs(Percent * resp.total - Max2(0, Percent * S - exact)) * 2 <= Percent
         /\ resp.total = order[resp.id].total
         /\ rq[r].applied_coupon = None => (c = 0 /\ resp.discount = 0 /\ resp.total = S)
         /\ rq[r].applied_coupon # None =>
              (c # 0 /\ pre.coupon[c].code = rq[r].applied_coupon /\ pre.coupon[c].active
                     /\ pre.coupon[c].tenant_id = rq[r].tenant_id)
         /\ (S = 10000 /\ c # 0) =>
              LET pct == pre.coupon[c].percent_off
                  amt == pre.coupon[c].amount_off
              IN /\ (pct = {10} /\ amt = {}) => (resp.discount = 1000 /\ resp.total = 9000)
                 /\ (pct = {} /\ amt = {1500}) => (resp.discount = 1500 /\ resp.total = 8500)
                 /\ (pct = {10} /\ amt = {500}) => (resp.discount = 1500 /\ resp.total = 8500)

\* C6 witness: percent_off = 10 and amount_off = 5 applied to a subtotal of 100.00
BothDiscountsOnHundred ==
  /\ Responded("r1")
  /\ rq["r1"].tenant_id = "T1"
  /\ rq["r1"].applied_coupon = "BOTH"
  /\ rq["r1"].resp.subtotal = 10000
  /\ rq["r1"].resp.discount = 1500
  /\ rq["r1"].resp.total = 8500

\* C7: after a successful create_order run alone, every product's stock is its stock
\* before the request minus the quantities of the order's items that name it, with no
\* clamp at zero, and the products the order does not name are unchanged.
StockAfterOrder ==
  \A r \in OrderReqs :
    Responded(r) =>
      \A p \in DOMAIN product :
        product[p].stock = pre.product[p].stock - SumQty(order[rq[r].resp.id].items, p)

\* C7 witness: an order of two products, 2 of P1 and 1 of P2
OrderedTwoProducts ==
  /\ Responded("r1")
  /\ Len(order) = 1
  /\ SumQty(order[1].items, "P1") = 2
  /\ SumQty(order[1].items, "P2") = 1
  /\ product["P1"].stock = pre.product["P1"].stock - 2
  /\ product["P3"].stock = pre.product["P3"].stock

\* C8: delivery attempts are made only once the order is persisted and the response
\* fixed, only to active webhooks of the order's tenant, at most once each, and carry
\* the order's id and total; an attempt, failed or not, changes no stock, order, coupon
\* or response; and after the response the task eventually ends with one attempt made
\* to each webhook it found, whatever the outcome of the earlier attempts; it finds
\* the webhooks of the tenant active at its lookup, and none is ever removed, so every
\* webhook active when the response was fixed is among them, also while products,
\* stock updates and webhooks are being added.
WebhooksDelivered ==
  /\ [](\A r \in OrderReqs :
          posts[r] # <<>> =>
            /\ Responded(r)
            /\ rq[r].resp.id \in DOMAIN order
            /\ HooksPosted(r) \subseteq ActiveHooks(rq[r].tenant_id)
            /\ Cardinality(HooksPosted(r)) = Len(posts[r])
            /\ \A i \in DOMAIN posts[r] :
                 /\ posts[r][i].event = "order.created"
                 /\ posts[r][i].order_id = rq[r].resp.id
                 /\ posts[r][i].total = rq[r].resp.total)
  /\ [][posts' # posts =>
          /\ UNCHANGED <<product, coupon, order>>
          /\ \A r \in OrderReqs : rq'[r].resp = rq[r].resp]_vars
  /\ \A r \in OrderReqs :
       Responded(r) ~> /\ rq[r].pc = "fw_post"
                       /\ rq[r].h > Len(rq[r].hooks)
                       /\ Len(posts[r]) = Len(rq[r].hooks)
                       /\ HooksPosted(r) = {rq[r].hooks[i] : i \in DOMAIN rq[r].hooks}
  /\ [][\A r \in OrderReqs :
          rq[r].pc = "fw_find" /\ rq'[r].pc = "fw_post" =>
            {rq'[r].hooks[i] : i \in DOMAIN rq'[r].hooks} = ActiveHooks(rq[r].tenant_id)]_vars
  /\ [][\A k \in DOMAIN webhook : k \in DOMAIN webhook' /\ webhook'[k] = webhook[k]]_vars

\* C8 witness: the first delivery failed and the later webhooks were attempted all the
\* same, the one registered while the order was being handled included
HooksAfterFailure ==
  /\ Len(posts["r1"]) = 3
  /\ ~posts["r1"][1].ok
  /\ posts["r1"][1].hook = 1
  /\ posts["r1"][2].hook = 3
  /\ posts["r1"][3].hook = Len(Webhooks) + 1

\* C9: nothing orders the stock checks of two interleaved create_order requests
\* before each other's decrements: once both have run, every product's stock is its
\* initial stock minus everything both ordered, below zero when both passed the check
\* on the same units.
RaceTakesBoth ==
  (\A r \in OrderReqs : rq[r].pc \in {"idle", "failed"} \/ Responded(r)) =>
    \A p \in DOMAIN product :
      product[p].stock =
        pre.product[p].stock
          - SumQty(IF Responded("r1") THEN order[rq["r1"].resp.id].items ELSE <<>>, p)
          - SumQty(IF Responded("r2") THEN order[rq["r2"].resp.id].items ELSE <<>>, p)

\* C9 witness: stock 1, two orders of quantity 1, both persisted, final stock -1
RaceNegativeStock ==
  /\ pre.product["P1"].stock = 1
  /\ Responded("r1") /\ Responded("r2")
  /\ Len(order) = 2
  /\ \A k \in {1, 2} : Len(order[k].items) = 1 /\ order[k].items[1].quantity = 1
  /\ product["P1"].stock = -1

\* C10: the order document is persisted before the first decrement and the decrements
\* follow the item order, one item at a time: in every state the stock is the initial
\* stock minus the first j - 1 items of each persisted order (so right after the
\* persist the order is recorded and every stock has its pre-order value), and a request
\* that has persisted its order and keeps running applies every item's decrement.
PersistThenDecrementInOrder ==
  /\ [](\A r \in OrderReqs :
          /\ rq[r].j = 0 <=> rq[r].oid_str = 0
          /\ rq[r].j # 0 =>
               /\ rq[r].oid_str \in DOMAIN order
               /\ order[rq[r].oid_str].items = rq[r].normalized_items)
  /\ [](\A p \in DOMAIN product :
          product[p].stock = pre.product[p].stock - Applied("r1", p) - Applied("r2", p))
  /\ \A r \in OrderReqs :
       (rq[r].pc = "decrement") ~>
         (Responded(r) /\ rq[r].j = Len(rq[r].normalized_items) + 1)

\* C10 witness: the order of two items is recorded and no stock has moved yet
PersistedNotYetDecremented ==
  /\ rq["r1"].pc = "decrement"
  /\ rq["r1"].j = 1
  /\ Len(order) = 1
  /\ Len(order[1].items) = 2
  /\ order[1].items[1].product_id # order[1].items[2].product_id
  /\ product = pre.product

====
